---- MODULE Spec2Model ----
(***************************************************************************)
(* Smart Shopping Bot (app.py, version 25.1): the search-collect-validate- *)
(* rank pipeline of SmartShoppingBot.search and its helpers.               *)
(*                                                                         *)
(* One search() call is modelled as a state machine.  The external         *)
(* collaborators (SerpAPI search, page fetch, the Gemini LLM) are          *)
(* nondeterministic: every call draws its answer from a small set.         *)
(*                                                                         *)
(* Units: a judged price is an integer number of cents; a rate of          *)
(* CURRENCY_RATES_TO_USD is an integer number of thousandths; a price in   *)
(* USD is therefore an integer number of 1/100000 USD (cents * rate).      *)
(* Python indices are 0-based, TLA+ sequences 1-based: PyIndex converts.   *)
(***************************************************************************)
EXTENDS Integers, Sequences, FiniteSets, TLC

VARIABLES
    genai,            \* module global: TRUE iff the Gemini module is usable
    pc,               \* position of search()
    image_content,    \* search(): the image_content argument
    original_query,   \* search(): original_query
    enhanced_query,   \* search(): enhanced_query, None once it is no longer read
    fallback_query,   \* search(): fallback_query
    is_fallback,      \* which pass is running (is_fallback of the scrape call)
    tasks,            \* _collect_candidates: each search task: queued, running,
                      \* done (it returned its hits) or failed (it returned [])
    all_candidates,   \* _collect_candidates: all_candidates
    candidates,       \* search(): candidates / fb_candidates of the current pass
    pre_filtered,     \* search(): pre_filtered_candidates / fb_pre_filtered
    scrape_original_query, \* _scrape_and_validate_candidates: original_query
    scraped,          \* scraped_candidates, until candidates_for_judgement is built
    judged,           \* candidates_for_judgement, while the scrape call is active
    consumed,         \* future_to_candidate: the futures as_completed has yielded
    calls,            \* the calls handed to the executor of line 211, each
                      \* queued, running or done, where their overlap is modelled
    thread,           \* the locals of each of two concurrent search() calls,
                      \* where two calls are modelled
    heap,             \* the list objects those calls create for all_candidates
    final_results,    \* final_products / final_results
    errors_list,      \* search(): errors_list
    exc,              \* exception propagating inside search(), or "none"
    result,           \* the pair returned by search(), or NoResult
    escaped,          \* exception that reached the caller of search()
    fallback_runs,    \* history: number of fallback passes started
    primary_accepted  \* history: offers accepted by the primary pass, -1 before it ended

vars == <<genai, pc, image_content, original_query, enhanced_query, fallback_query,
          is_fallback, tasks, all_candidates, candidates, pre_filtered,
          scrape_original_query, scraped, judged, consumed, calls,
          thread, heap, final_results, errors_list, exc, result, escaped, fallback_runs, primary_accepted>>

-----------------------------------------------------------------------------
(* Bounds of the model *)

\* number of distinct URLs the search provider can return
NumUrls == 2

Urls == 1..NumUrls

-----------------------------------------------------------------------------
(* Program constants *)

SEARCH_DEPTH_PAGES == 3
MAX_RESULTS_TO_RETURN == 30
RELEVANCE_THRESHOLD == 5
PRICE_ACCURACY_THRESHOLD == 6
\* max_workers of the search pool
SearchWorkers == 5
\* max_workers of the pool of the fetch and judge calls
ScrapeWorkers == 10
\* len(text_content) > 50
MinTextLen == 50
\* price_in_usd >= 0.50, in 1/100000 USD
MinPriceUsd == 50000
\* number of positional parameters of _get_ai_analysis
JudgeParams == 2
\* number of positional arguments executor.submit passes to _get_ai_analysis
JudgeArgsSubmitted == 3

None == "<None>"
\* the None a judge call returns
NoAnalysis == [kind |-> "None"]
NoResult == <<"<no result>">>

MSG_EMPTY_QUERY == "Por favor, introduce un termino de busqueda."
MSG_NO_QUERY == "No se pudo generar una consulta valida."
MSG_FALLBACK == "No encontramos resultados exactos, pero aqui hay algunas opciones similares."
MSG_UNEXPECTED == "Ocurrio un error inesperado en el servidor."

\* CURRENCY_RATES_TO_USD, in thousandths; 0 stands for a missing key (.get gives None)
CURRENCY_RATES_TO_USD(c) ==
    CASE c = "USD" -> 1000
      [] c = "DOP" -> 17
      [] c = "MXN" -> 54
      [] c = "CAD" -> 730
      [] c = "EUR" -> 1080
      [] c = "GBP" -> 1270
      [] OTHER -> 0

-----------------------------------------------------------------------------
(* Python helpers *)

\* str.strip() on the strings of the model
Strip(s) ==
    CASE s = " " -> ""
      [] s = " enh " -> "enh"
      [] s = " fb " -> "fb"
      [] OTHER -> s

\* truthiness of an Optional[str]
Truthy(s) == s # None /\ s # ""

\* seq[i] with Python's 0-based index, negative indices counting from the end
PyIndex(seq, i) == IF i >= 0 THEN seq[i + 1] ELSE seq[Len(seq) + i + 1]

\* seq[i] raises IndexError
PyIndexError(seq, i) == i >= Len(seq) \/ i < 0 - Len(seq)

RECURSIVE Perms(_)
\* every iteration order of a Python set
Perms(S) ==
    IF S = {} THEN {<<>>}
    ELSE UNION {{<<x>> \o p : p \in Perms(S \ {x})} : x \in S}

RECURSIVE SelectIdx(_, _, _)
\* [f(x) for x in order if keep(x)] for index lists: keeps the indices below n
SelectIdx(seq, order, n) ==
    IF order = <<>> THEN <<>>
    ELSE (IF Head(order) < n THEN <<PyIndex(seq, Head(order))>> ELSE <<>>)
         \o SelectIdx(seq, Tail(order), n)

-----------------------------------------------------------------------------
(* External answers *)

\* query arguments: None, empty, whitespace-only, a text
QueryInputs == {None, "", " ", "q"}

\* image_content arguments: None or the bytes of an image
ImageInputs == {None, "img"}

\* response.text of the LLM for a query prompt, or an exception
TextResponses == {"raise", " ", " enh "}
FallbackResponses == {"raise", " ", " fb "}

\* one SerpAPI call: it fails, or it answers a list of hits (their links)
SearchResponses == {<<"fail">>} \cup {<<"ok", <<>>>>} \cup {<<"ok", <<u>>>> : u \in Urls}

\* indices the pre-filter LLM can name for n candidates: below the range
\* (IndexError), negative and wrapping, in range, above the range
IndexDomain(n) == {0 - (n + 1), 0 - 1} \cup (0..n)

\* verdicts of the judge LLM: a JSON object, a JSON object lacking a key,
\* unparseable text, or an exception of the call; price_type is the JSON
\* type of the value of "price"
Verdict(usa, rel, acc, cur, price) ==
    [kind |-> "json", is_usa_centric |-> usa, relevance_score |-> rel,
     price_accuracy_score |-> acc, currency |-> cur, price |-> price,
     price_type |-> "number"]
VerdictGood == Verdict(TRUE, 9, 9, "usd", 499)
VerdictGoodEur == Verdict(TRUE, 5, 6, "EUR", 1000)
VerdictIrrelevant == Verdict(TRUE, 2, 9, "USD", 499)
PageVerdicts == {VerdictGood, VerdictGoodEur, VerdictIrrelevant}

\* how one call of the judge LLM ends: it answers the JSON object asked for,
\* that object with a text that is no number as its price, a JSON object that
\* lacks a required key, text that is no JSON, or it raises
JudgeModes == {"json", "wrong_type", "missing_key", "malformed", "raise"}

\* one page fetch: a failure (empty text), a text of exactly MinTextLen
\* characters, or a longer text; `verdict` is the JSON object the judge LLM
\* answers when it is shown this page and answers as asked
Page(u, len, v) == [url |-> u, text_len |-> len, verdict |-> v]
FetchOutcomes ==
    {<<0, NoAnalysis>>, <<MinTextLen, NoAnalysis>>}
    \cup {<<MinTextLen + 1, v>> : v \in PageVerdicts}

-----------------------------------------------------------------------------
(* Pure parts of the pipeline *)

\* a collection that keeps every hit
AllCandidatesKept(cands, seen_urls) == cands

RECURSIVE UniqueCandidates(_, _)
\* [p for p in all_candidates if p.url not in seen_urls and not seen_urls.add(p.url)]
UniqueCandidates(cands, seen_urls) ==
    IF cands = <<>> THEN <<>>
    ELSE IF Head(cands) \in seen_urls
         THEN UniqueCandidates(Tail(cands), seen_urls)
         ELSE <<Head(cands)>> \o UniqueCandidates(Tail(cands), seen_urls \cup {Head(cands)})

\* [c for c in scraped_candidates if c['text_content'] and len(c['text_content']) > 50]
CandidatesForJudgement(pages) ==
    SelectSeq(pages, LAMBDA c : c.text_len # 0 /\ c.text_len > MinTextLen)

\* str.upper() on the currency codes of the model
Upper(c) == IF c = "usd" THEN "USD" ELSE c

\* executor.submit(_get_ai_analysis, c, original_query, errors_list): the call
\* binds its arguments to the parameters of _get_ai_analysis
JudgeCallBinds == JudgeArgsSubmitted = JudgeParams

\* _get_ai_analysis: the analysis dict, or None
GetAiAnalysis(page, mode) ==
    IF ~genai \/ page.text_len = 0 THEN NoAnalysis
    ELSE IF mode \in {"raise", "malformed"} THEN NoAnalysis
    ELSE IF mode = "missing_key" THEN NoAnalysis
    ELSE IF mode = "wrong_type" THEN [page.verdict EXCEPT !.price_type = "string"]
    ELSE page.verdict

\* the outcome stored in a judge future: an exception or the returned value
JudgeFuture(page, mode) ==
    IF JudgeCallBinds
    THEN [exception |-> "none", value |-> GetAiAnalysis(page, mode)]
    ELSE [exception |-> "TypeError", value |-> NoAnalysis]

\* the threshold test of line 218
PassesThresholds(analysis) ==
    /\ analysis.kind = "json"
    /\ analysis.is_usa_centric
    /\ analysis.relevance_score >= RELEVANCE_THRESHOLD
    /\ analysis.price_accuracy_score >= PRICE_ACCURACY_THRESHOLD

PriceInUsd(analysis) == analysis.price * CURRENCY_RATES_TO_USD(Upper(analysis.currency))

\* lines 218-221 run outside any try: float() of a price that is no number
\* raises ValueError once the verdict has passed the thresholds and the
\* currency is known
FilterException(analysis) ==
    IF PassesThresholds(analysis)
       /\ CURRENCY_RATES_TO_USD(Upper(analysis.currency)) # 0
       /\ analysis.price_type # "number"
    THEN "ValueError" ELSE "none"

\* the offers one verdict adds to final_products: none or one ProductResult
AcceptedOffers(page, analysis, fb) ==
    IF PassesThresholds(analysis)
       /\ CURRENCY_RATES_TO_USD(Upper(analysis.currency)) # 0
       /\ PriceInUsd(analysis) >= MinPriceUsd
    THEN <<[url |-> page.url,
            price_in_usd |-> PriceInUsd(analysis),
            original_price |-> analysis.price,
            original_currency |-> Upper(analysis.currency),
            relevance_score |-> analysis.relevance_score,
            price_accuracy_score |-> analysis.price_accuracy_score,
            is_alternative_suggestion |-> fb]>>
    ELSE <<>>

RECURSIVE InsertByPrice(_, _)
\* insertion after every element whose key is not greater: list.sort is stable
InsertByPrice(sorted, p) ==
    IF sorted = <<>> THEN <<p>>
    ELSE IF Head(sorted).price_in_usd <= p.price_in_usd
         THEN <<Head(sorted)>> \o InsertByPrice(Tail(sorted), p)
         ELSE <<p>> \o sorted

RECURSIVE SortByPrice(_)
\* final_results.sort(key=lambda p: p.price_in_usd)
SortByPrice(offers) ==
    IF offers = <<>> THEN <<>>
    ELSE InsertByPrice(SortByPrice(SubSeq(offers, 1, Len(offers) - 1)), offers[Len(offers)])

\* final_results[:MAX_RESULTS_TO_RETURN]
Truncate(offers) ==
    IF Len(offers) <= MAX_RESULTS_TO_RETURN THEN offers
    ELSE SubSeq(offers, 1, MAX_RESULTS_TO_RETURN)

\* except Exception: every exception of the model derives from Exception
Exceptions == {"TypeError", "ValueError", "AttributeError", "FakeUserAgentError"}

\* a handler that lets TypeError pass
CatchesValueErrorOnly(e) == e = "ValueError"

\* except Exception: every exception of the model derives from Exception
Catches(e) == e \in Exceptions

-----------------------------------------------------------------------------
(* State *)

NumTasks == SEARCH_DEPTH_PAGES + 2
TaskIds == 1..NumTasks

NoTasks == [t \in TaskIds |-> "none"]
QueuedTasks == [t \in TaskIds |-> "queued"]

Init ==
    /\ genai \in BOOLEAN
    /\ pc = "idle"
    /\ image_content = None
    /\ original_query = None
    /\ enhanced_query = None
    /\ fallback_query = None
    /\ is_fallback = FALSE
    /\ tasks = NoTasks
    /\ all_candidates = <<>>
    /\ candidates = <<>>
    /\ pre_filtered = <<>>
    /\ scraped = <<>>
    /\ judged = <<>>
    /\ scrape_original_query = None
    /\ consumed = {}
    /\ calls = <<>>
    /\ thread = <<>>
    /\ heap = <<>>
    /\ final_results = <<>>
    /\ errors_list = <<>>
    /\ exc = "none"
    /\ result = NoResult
    /\ escaped = "none"
    /\ fallback_runs = 0
    /\ primary_accepted = 0 - 1

collectVars == <<tasks, all_candidates, candidates>>
scrapeVars == <<pre_filtered, scraped, judged, consumed, final_results>>
queryVars == <<original_query, enhanced_query, fallback_query>>
histVars == <<fallback_runs, primary_accepted>>

\* return statement of search()
Return(offers, warnings) ==
    /\ result' = <<offers, warnings>>
    /\ pc' = "done"

-----------------------------------------------------------------------------
(* search(): lines 233-239 *)

\* search() is called: lines 233-236; image_content is bound and never read
Search(q, img) ==
    /\ pc = "idle"
    /\ image_content' = img
    /\ original_query' = IF Truthy(q) THEN Strip(q) ELSE "product from image"
    /\ IF original_query' = ""
       THEN Return(<<>>, <<MSG_EMPTY_QUERY>>)
       ELSE pc' = "enhance" /\ UNCHANGED result
    /\ UNCHANGED <<genai, thread, heap, calls, scrape_original_query, enhanced_query, fallback_query, is_fallback,
                   collectVars, scrapeVars, errors_list, exc, escaped, histVars>>

\* _enhance_query(text), given the LLM's answer
EnhanceQuery(text, r) ==
    IF ~genai \/ text = "" THEN text
    ELSE IF r = "raise" THEN text
    ELSE Strip(r)

\* lines 238-241: the query is enhanced and the search tasks are submitted
Enhance(r) ==
    /\ pc = "enhance"
    /\ enhanced_query' = EnhanceQuery(original_query, r)
    /\ IF ~Truthy(enhanced_query')
       THEN Return(<<>>, <<MSG_NO_QUERY>>) /\ UNCHANGED tasks
       ELSE pc' = "collect" /\ tasks' = QueuedTasks /\ UNCHANGED result
    /\ UNCHANGED <<genai, thread, heap, calls, scrape_original_query, image_content, original_query, fallback_query, is_fallback,
                   all_candidates, candidates, scrapeVars, errors_list, exc,
                   escaped, histVars>>

-----------------------------------------------------------------------------
(* _collect_candidates *)

Running == {t \in TaskIds : tasks[t] = "running"}

\* an executor that starts a call whenever one is queued
AlwaysFreeWorker(running, max_workers) == TRUE

\* ThreadPoolExecutor(max_workers=...): a queued call starts only while fewer
\* than max_workers calls are running
FreeWorker(running, max_workers) == running < max_workers

\* a worker of the pool takes a queued search task: the work queue of the
\* executor is first in, first out
StartSearchTask(t) ==
    /\ pc = "collect"
    /\ tasks[t] = "queued"
    /\ \A u \in TaskIds : u < t => tasks[u] # "queued"
    /\ FreeWorker(Cardinality(Running), SearchWorkers)
    /\ tasks' = [tasks EXCEPT ![t] = "running"]
    /\ UNCHANGED <<genai, thread, heap, calls, scrape_original_query, image_content, pc, queryVars, is_fallback, all_candidates, candidates,
                   scrapeVars, errors_list, exc, result, escaped, histVars>>

\* _run_search_task: the hits of one call, [] when the call fails
RunSearchTask(resp) == IF resp[1] = "fail" THEN <<>> ELSE resp[2]

\* a search task completes and as_completed hands it to the loop of line 199
FinishSearchTask(t, resp) ==
    /\ pc = "collect"
    /\ tasks[t] = "running"
    /\ tasks' = [tasks EXCEPT ![t] = IF resp[1] = "fail" THEN "failed" ELSE "done"]
    /\ all_candidates' = all_candidates \o RunSearchTask(resp)
    /\ UNCHANGED <<genai, thread, heap, calls, scrape_original_query, image_content, pc, queryVars, is_fallback, candidates,
                   scrapeVars, errors_list, exc, result, escaped, histVars>>

\* the future of task t has completed
TaskFinished(t) == tasks[t] \in {"done", "failed"}

\* a loop that stops at the first completed future
SomeTaskCompleted == \E t \in TaskIds : TaskFinished(t)

\* lines 199-200: as_completed has yielded every future
AllTasksCompleted == \A t \in TaskIds : TaskFinished(t)

\* lines 202-204: every task is done, the candidates are deduplicated.
\* enhanced_query is not read after the call of line 241 has returned
CollectReturn ==
    /\ pc = "collect"
    /\ AllTasksCompleted
    /\ candidates' = UniqueCandidates(all_candidates, {})
    /\ all_candidates' = <<>>
    /\ tasks' = NoTasks
    /\ enhanced_query' = None
    /\ pc' = "prefilter"
    /\ UNCHANGED <<genai, thread, heap, calls, scrape_original_query, image_content, original_query, fallback_query, is_fallback, scrapeVars,
                   errors_list, exc, result, escaped, histVars>>

-----------------------------------------------------------------------------
(* _pre_filter_candidates_with_ai and the entry of _scrape_and_validate_candidates *)

\* where search() continues when the scrape call of the current pass returns
AfterPass == IF is_fallback THEN "after_fallback" ELSE "after_primary"

\* the lists _pre_filter_candidates_with_ai can return; resp is <<"raise">> (the
\* call fails or its text is not the JSON asked for) or <<"ok", valid_indices>>
PreFilterResults(cands, resp) ==
    IF ~genai \/ cands = <<>> THEN {<<>>}
    ELSE IF resp[1] = "raise" THEN {cands}
    ELSE IF \E i \in resp[2] : i < Len(cands) /\ PyIndexError(cands, i) THEN {cands}
    ELSE {SelectIdx(cands, order, Len(cands)) : order \in Perms(resp[2])}

PreFilterResponses(n) == {<<"raise">>} \cup {<<"ok", idx>> : idx \in SUBSET IndexDomain(n)}

\* a call that hands the query of the pass to the judge
ScrapeQueryOfPass(original, fallback) == IF Truthy(fallback) THEN fallback ELSE original

\* lines 243 and 251: the second argument of _scrape_and_validate_candidates
ScrapeQueryArgument(original, fallback) == original

\* lines 242-243 (250-251 in the fallback pass) up to line 207
PreFilter(resp) ==
    /\ pc = "prefilter"
    /\ \E out \in PreFilterResults(candidates, resp) :
          /\ pre_filtered' = out
          /\ pc' = IF out = <<>> THEN AfterPass ELSE "scrape"
    /\ scrape_original_query' = ScrapeQueryArgument(original_query, fallback_query)
    /\ scraped' = <<>>
    /\ judged' = <<>>
    /\ consumed' = {}
    /\ final_results' = <<>>
    /\ UNCHANGED <<genai, thread, heap, calls, image_content, queryVars, is_fallback, collectVars, errors_list, exc,
                   result, escaped, histVars>>

-----------------------------------------------------------------------------
(* _scrape_and_validate_candidates *)

\* line 77: UserAgent().random is evaluated outside the try of
\* _deep_scrape_content; when fake_useragent cannot load its data it raises,
\* executor.map re-raises it at line 212 and it reaches the try of search()
UserAgentFails ==
    /\ pc = "scrape"
    /\ Len(scraped) < Len(pre_filtered)
    /\ exc' = "FakeUserAgentError"
    /\ pc' = "handler"
    /\ scraped' = <<>>
    /\ UNCHANGED <<genai, thread, heap, calls, scrape_original_query, image_content, queryVars, is_fallback, collectVars, pre_filtered,
                   judged, consumed, final_results, errors_list, result,
                   escaped, histVars>>

\* lines 78-88 and 212: executor.map yields the pages in the order of the
\* candidates; a failed fetch gives a page with empty text
DeepScrapeContent(out) ==
    /\ pc = "scrape"
    /\ Len(scraped) < Len(pre_filtered)
    /\ scraped' = Append(scraped, Page(pre_filtered[Len(scraped) + 1], out[1], out[2]))
    /\ UNCHANGED <<genai, thread, heap, calls, scrape_original_query, image_content, pc, queryVars, is_fallback, collectVars, pre_filtered,
                   judged, consumed, final_results, errors_list, exc,
                   result, escaped, histVars>>

\* lines 213-215: the pages with enough text are submitted to the judge
SubmitJudge ==
    /\ pc = "scrape"
    /\ Len(scraped) = Len(pre_filtered)
    /\ judged' = CandidatesForJudgement(scraped)
    /\ consumed' = {}
    /\ pc' = IF judged' = <<>> THEN AfterPass ELSE "judge"
    /\ scraped' = <<>>
    /\ UNCHANGED <<genai, thread, heap, calls, scrape_original_query, image_content, queryVars, is_fallback, collectVars, pre_filtered,
                   final_results, errors_list, exc, result, escaped, histVars>>

\* lines 216-230: a worker has run the submitted call of candidate i and
\* as_completed yields its future; future.result() raises the exception of
\* the call or gives its verdict, which is filtered; float() in the filter
\* can raise as well.  When one of them raises, the
\* with block of line 211 is left: the executor lets the remaining calls end,
\* drops their results, and the exception reaches the try of search()
JudgeResult(i, mode) ==
    /\ pc = "judge"
    /\ i \in 1..Len(judged)
    /\ i \notin consumed
    /\ LET future == JudgeFuture(judged[i], mode)
           raised == IF future.exception # "none" THEN future.exception
                     ELSE FilterException(future.value)
       IN
       IF raised # "none"
       THEN /\ exc' = raised
            /\ pc' = "handler"
            /\ consumed' = {}
            /\ final_results' = <<>>
            /\ UNCHANGED judged
       ELSE /\ final_results' = final_results
                                \o AcceptedOffers(judged[i], future.value, is_fallback)
            /\ UNCHANGED exc
            /\ IF consumed \cup {i} = 1..Len(judged)
               THEN /\ pc' = AfterPass
                    /\ judged' = <<>>
                    /\ consumed' = {}
               ELSE /\ pc' = "judge"
                    /\ consumed' = consumed \cup {i}
                    /\ UNCHANGED judged
    /\ UNCHANGED <<genai, thread, heap, calls, scrape_original_query, image_content, queryVars, is_fallback, collectVars, pre_filtered,
                   scraped, errors_list, result, escaped, histVars>>

-----------------------------------------------------------------------------
(* search(): lines 245-265 *)

\* _get_fallback_query(original_query), given the LLM's answer
GetFallbackQuery(r) ==
    IF ~genai THEN None
    ELSE IF r = "raise" THEN None
    ELSE Strip(r)

\* line 245: the fallback block is entered
FallbackNeeded(results) == results = <<>>

\* lines 245-249: the primary pass has returned; primary_accepted records
\* what it returned the first time this line is reached
AfterPrimary(r) ==
    /\ pc = "after_primary"
    /\ primary_accepted' = IF fallback_runs = 0 THEN Len(final_results) ELSE primary_accepted
    /\ IF FallbackNeeded(final_results)
       THEN /\ fallback_runs' = fallback_runs + 1
            /\ fallback_query' = GetFallbackQuery(r)
            /\ IF Truthy(fallback_query')
               THEN /\ is_fallback' = TRUE
                    /\ tasks' = QueuedTasks
                    /\ candidates' = <<>>
                    /\ pre_filtered' = <<>>
                    /\ pc' = "collect"
               ELSE /\ pc' = "finish"
                    /\ UNCHANGED <<is_fallback, tasks, candidates, pre_filtered>>
       ELSE /\ pc' = "finish"
            /\ UNCHANGED <<fallback_runs, fallback_query, is_fallback, tasks,
                           candidates, pre_filtered>>
    /\ UNCHANGED <<genai, thread, heap, calls, scrape_original_query, image_content, original_query, enhanced_query, all_candidates,
                   scraped, judged, consumed, final_results,
                   errors_list, exc, result, escaped>>

\* the warning inserted whatever the fallback pass found
FallbackWarningsAlways(results, errors) == <<MSG_FALLBACK>> \o errors

\* the warnings after the fallback pass: errors_list.insert(0, ...) when it found offers
FallbackWarnings(results, errors) ==
    IF results # <<>> THEN <<MSG_FALLBACK>> \o errors ELSE errors

\* a retry loop: the fallback block is entered again while nothing was found
AfterFallbackRetry(results) == IF results = <<>> THEN "after_primary" ELSE "finish"

\* where search() continues after the fallback block
AfterFallbackPc(results) == "finish"

\* lines 251-253: the fallback pass has returned
AfterFallback ==
    /\ pc = "after_fallback"
    /\ errors_list' = FallbackWarnings(final_results, errors_list)
    /\ pc' = AfterFallbackPc(final_results)
    /\ UNCHANGED <<genai, thread, heap, calls, scrape_original_query, image_content, queryVars, is_fallback, collectVars, scrapeVars, exc,
                   result, escaped, histVars>>

\* lines 255-261: the result is sorted by price and truncated
Finish ==
    /\ pc = "finish"
    /\ IF final_results = <<>>
       THEN Return(<<>>, errors_list)
       ELSE Return(Truncate(SortByPrice(final_results)), errors_list)
    /\ UNCHANGED <<genai, thread, heap, calls, scrape_original_query, image_content, queryVars, is_fallback, collectVars, scrapeVars,
                   errors_list, exc, escaped, histVars>>

\* a handler that returns the warnings accumulated so far
HandlerResultKeepsWarnings(offers, warnings) == <<<<>>, warnings>>

\* line 265: what the handler returns, whatever was accepted or recorded
HandlerResult(offers, warnings) == <<<<>>, <<MSG_UNEXPECTED>>>>

\* where search() is about to call model.generate_content: in _enhance_query
\* (line 95), in _pre_filter_candidates_with_ai (line 124) and in
\* _get_fallback_query (line 106)
AtLlmCall ==
    /\ genai
    /\ \/ pc = "enhance"
       \/ pc = "prefilter" /\ candidates # <<>>
       \/ pc = "after_primary" /\ FallbackNeeded(final_results)

\* model.generate_content is called with no timeout and no request options:
\* when the service never answers, nothing in search() ends the call.  (The
\* requests.get calls of lines 79 and 178 carry timeout=12 and timeout=20: a
\* server that never answers makes them raise, which is the failing outcome
\* of DeepScrapeContent and FinishSearchTask.)
LlmNeverAnswers ==
    /\ AtLlmCall
    /\ pc' = "blocked"
    /\ UNCHANGED <<genai, thread, heap, calls, scrape_original_query, image_content, queryVars,
                   is_fallback, collectVars, scrapeVars, errors_list, exc,
                   result, escaped, histVars>>

\* lines 263-265: except Exception
Handler ==
    /\ pc = "handler"
    /\ IF Catches(exc)
       THEN /\ Return(HandlerResult(final_results, errors_list)[1],
                      HandlerResult(final_results, errors_list)[2])
            /\ UNCHANGED escaped
       ELSE pc' = "done" /\ escaped' = exc /\ UNCHANGED result
    /\ exc' = "none"
    /\ UNCHANGED <<genai, thread, heap, calls, scrape_original_query, image_content, queryVars, is_fallback, collectVars, scrapeVars,
                   errors_list, histVars>>

-----------------------------------------------------------------------------

Next ==
    \/ \E q \in QueryInputs, img \in ImageInputs : Search(q, img)
    \/ \E r \in TextResponses : Enhance(r)
    \/ \E t \in TaskIds : StartSearchTask(t)
    \/ \E t \in TaskIds, resp \in SearchResponses : FinishSearchTask(t, resp)
    \/ CollectReturn
    \/ \E resp \in PreFilterResponses(Len(candidates)) : PreFilter(resp)
    \/ UserAgentFails
    \/ \E out \in FetchOutcomes : DeepScrapeContent(out)
    \/ SubmitJudge
    \/ \E i \in 1..Len(judged), mode \in JudgeModes : JudgeResult(i, mode)
    \/ \E r \in FallbackResponses : AfterPrimary(r)
    \/ AfterFallback
    \/ Finish
    \/ Handler
    \/ LlmNeverAnswers

Spec == Init /\ [][Next]_vars

TypeOK ==
    /\ genai \in BOOLEAN
    /\ pc \in {"idle", "enhance", "collect", "prefilter", "scrape", "judge",
               "after_primary", "after_fallback", "finish", "handler", "done",
               "blocked"}
    /\ exc \in Exceptions \cup {"none"}
    /\ fallback_runs \in 0..1

-----------------------------------------------------------------------------
(* The two executors with more calls than workers.  PoolSpec follows the    *)
(* calls of one pass through the pools: the search tasks of                 *)
(* _collect_candidates, or the fetch and judge calls of                     *)
(* _scrape_and_validate_candidates for a list of up to MaxPoolCandidates    *)
(* candidates.  What the calls answer is left out, only when they start     *)
(* and end is followed.                                                     *)

\* the longest candidate list handed to _scrape_and_validate_candidates
MaxPoolCandidates == 11

\* a list of n calls, all queued: executor.map and the dict comprehension of
\* line 215 submit every call before any result is taken
QueuedCalls(n) == [k \in 1..n |-> "queued"]

RunningCalls == {i \in DOMAIN calls : calls[i] = "running"}

\* the pass is in _collect_candidates with its tasks submitted, or in
\* _scrape_and_validate_candidates with the fetch calls of n candidates submitted
PoolInit ==
    /\ genai = TRUE
    /\ thread = <<>>
    /\ heap = <<>>
    /\ image_content = None
    /\ original_query = "q"
    /\ fallback_query = None
    /\ is_fallback = FALSE
    /\ all_candidates = <<>>
    /\ scraped = <<>>
    /\ judged = <<>>
    /\ consumed = {}
    /\ final_results = <<>>
    /\ errors_list = <<>>
    /\ exc = "none"
    /\ result = NoResult
    /\ escaped = "none"
    /\ fallback_runs = 0
    /\ primary_accepted = 0 - 1
    /\ \/ /\ pc = "collect"
          /\ scrape_original_query = None
          /\ enhanced_query = "enh"
          /\ tasks = QueuedTasks
          /\ candidates = <<>>
          /\ pre_filtered = <<>>
          /\ calls = <<>>
       \/ \E n \in 1..MaxPoolCandidates :
             /\ pc = "scrape"
             /\ scrape_original_query = "q"
             /\ enhanced_query = None
             /\ tasks = NoTasks
             /\ candidates = [k \in 1..n |-> k]
             /\ pre_filtered = [k \in 1..n |-> k]
             /\ calls = QueuedCalls(n)

poolFrame == <<genai, thread, heap, image_content, queryVars, is_fallback, collectVars,
               pre_filtered, scrape_original_query, scraped, consumed, final_results, errors_list,
               exc, result, escaped, histVars>>

\* a worker of the pool of line 211 takes the next queued call
StartCall(i) ==
    /\ pc \in {"scrape", "judge"}
    /\ i \in DOMAIN calls
    /\ calls[i] = "queued"
    /\ \A j \in DOMAIN calls : j < i => calls[j] # "queued"
    /\ FreeWorker(Cardinality(RunningCalls), ScrapeWorkers)
    /\ calls' = [calls EXCEPT ![i] = "running"]
    /\ UNCHANGED <<pc, judged, poolFrame>>

\* the call ends: _deep_scrape_content returns its page, or the call of
\* _get_ai_analysis ends and its outcome is stored in its future
FinishCall(i) ==
    /\ pc \in {"scrape", "judge"}
    /\ i \in DOMAIN calls
    /\ calls[i] = "running"
    /\ calls' = [calls EXCEPT ![i] = "done"]
    /\ UNCHANGED <<pc, judged, poolFrame>>

\* lines 212-215: list(executor.map(...)) has every page; m of them have more
\* than MinTextLen characters (which ones does not matter to the pool) and
\* are submitted to the judge
SubmitJudgeCalls(m) ==
    /\ pc = "scrape"
    /\ calls # <<>>
    /\ \A i \in DOMAIN calls : calls[i] = "done"
    /\ m \in 0..Len(pre_filtered)
    /\ judged' = [k \in 1..m |-> Page(pre_filtered[k], MinTextLen + 1, VerdictGood)]
    /\ calls' = QueuedCalls(m)
    /\ pc' = IF m = 0 THEN AfterPass ELSE "judge"
    /\ UNCHANGED poolFrame

PoolNext ==
    \/ \E t \in TaskIds : StartSearchTask(t)
    \/ \E t \in TaskIds, resp \in SearchResponses : FinishSearchTask(t, resp)
    \/ CollectReturn
    \/ \E i \in 1..MaxPoolCandidates : StartCall(i)
    \/ \E i \in 1..MaxPoolCandidates : FinishCall(i)
    \/ \E m \in 0..MaxPoolCandidates : SubmitJudgeCalls(m)

PoolSpec == PoolInit /\ [][PoolNext]_vars

-----------------------------------------------------------------------------
(* Two search() calls on the one shopping_bot of line 270, as two request   *)
(* threads run them.  Each call is followed from its call to its return in  *)
(* four steps; the calls share the module global genai and the heap.  The   *)
(* search provider answers call i with the URL UrlOf(i), so that a          *)
(* candidate tells which call it was collected for.  The fallback query     *)
(* is taken not to be obtained (_get_fallback_query returns None).          *)

CallIds == {1, 2}

\* the URL the search provider returns to call i
UrlOf(i) == i

\* two calls that keep their hits in one list
SharedList(i) == 1

\* line 195: all_candidates = [] makes a new list object in every call
ListOf(i) == i

IdleThread ==
    [pc |-> "idle", original_query |-> None, tasks_left |-> 0,
     candidates |-> <<>>, own_hits |-> {}, result |-> NoResult]

TwoCallInit ==
    /\ genai \in BOOLEAN
    /\ thread = [i \in CallIds |-> IdleThread]
    /\ heap = [i \in CallIds |-> <<>>]
    /\ pc = "idle"
    /\ image_content = None
    /\ original_query = None
    /\ enhanced_query = None
    /\ fallback_query = None
    /\ is_fallback = FALSE
    /\ tasks = NoTasks
    /\ all_candidates = <<>>
    /\ candidates = <<>>
    /\ pre_filtered = <<>>
    /\ scrape_original_query = None
    /\ scraped = <<>>
    /\ judged = <<>>
    /\ consumed = {}
    /\ calls = <<>>
    /\ final_results = <<>>
    /\ errors_list = <<>>
    /\ exc = "none"
    /\ result = NoResult
    /\ escaped = "none"
    /\ fallback_runs = 0
    /\ primary_accepted = 0 - 1

callFrame == <<genai, pc, image_content, queryVars, is_fallback, collectVars,
               scrapeVars, scrape_original_query, calls, errors_list, exc,
               result, escaped, histVars>>

\* lines 233-240 and 195-198 of call i: the query is checked and enhanced,
\* the list of the hits is created and the search tasks are submitted
CallSearch(i, q, r) ==
    /\ thread[i].pc = "idle"
    /\ LET oq == IF Truthy(q) THEN Strip(q) ELSE "product from image"
           eq == EnhanceQuery(oq, r)
       IN
       IF oq = ""
       THEN /\ thread' = [thread EXCEPT ![i].pc = "done",
                                         ![i].original_query = oq,
                                         ![i].result = <<<<>>, <<MSG_EMPTY_QUERY>>>>]
            /\ UNCHANGED heap
       ELSE IF ~Truthy(eq)
       THEN /\ thread' = [thread EXCEPT ![i].pc = "done",
                                         ![i].original_query = oq,
                                         ![i].result = <<<<>>, <<MSG_NO_QUERY>>>>]
            /\ UNCHANGED heap
       ELSE /\ thread' = [thread EXCEPT ![i].pc = "collect",
                                         ![i].original_query = oq,
                                         ![i].tasks_left = NumTasks]
            /\ heap' = [heap EXCEPT ![ListOf(i)] = <<>>]
    /\ UNCHANGED callFrame

\* what one SerpAPI call of call i answers
CallSearchResponses(i) == {<<"fail">>, <<"ok", <<>>>>, <<"ok", <<UrlOf(i)>>>>}

\* lines 199-200 of call i: a search task has completed and its hits are
\* added to the list of the call
CallSearchTask(i, resp) ==
    /\ thread[i].pc = "collect"
    /\ thread[i].tasks_left > 0
    /\ LET hits == RunSearchTask(resp) IN
       /\ heap' = [heap EXCEPT ![ListOf(i)] = @ \o hits]
       /\ thread' = [thread EXCEPT
                        ![i].tasks_left = @ - 1,
                        ![i].own_hits = @ \cup {hits[k] : k \in 1..Len(hits)}]
    /\ UNCHANGED callFrame

\* lines 202-204 of call i
CallCollectReturn(i) ==
    /\ thread[i].pc = "collect"
    /\ thread[i].tasks_left = 0
    /\ thread' = [thread EXCEPT
                     ![i].pc = "scrape",
                     ![i].candidates = UniqueCandidates(heap[ListOf(i)], {})]
    /\ UNCHANGED <<heap, callFrame>>

RECURSIVE JudgeAll(_)
\* lines 216-229 when no judge call raises: the offers of the pages, in order
JudgeAll(pages) ==
    IF pages = <<>> THEN <<>>
    ELSE AcceptedOffers(Head(pages), GetAiAnalysis(Head(pages), "json"), FALSE)
         \o JudgeAll(Tail(pages))

\* lines 242-265 of call i: the pre-filter answers pf, every fetch gives a
\* page like out, the pages are judged and the call returns
CallScrape(i, pf, out) ==
    /\ thread[i].pc = "scrape"
    /\ \E pre \in PreFilterResults(thread[i].candidates, pf) :
          LET pages == [k \in 1..Len(pre) |-> Page(pre[k], out[1], out[2])]
              forJudge == CandidatesForJudgement(pages)
              raised == IF forJudge = <<>> THEN "none"
                        ELSE JudgeFuture(forJudge[1], "json").exception
              offers == IF raised # "none" THEN <<>> ELSE JudgeAll(forJudge)
          IN
          thread' = [thread EXCEPT
                       ![i].pc = "done",
                       ![i].result =
                           IF raised # "none" /\ Catches(raised)
                           THEN HandlerResult(<<>>, <<>>)
                           ELSE <<Truncate(SortByPrice(offers)), <<>>>>]
    /\ UNCHANGED <<heap, callFrame>>

TwoCallNext ==
    \E i \in CallIds :
        \/ \E q \in QueryInputs, r \in TextResponses : CallSearch(i, q, r)
        \/ \E resp \in CallSearchResponses(i) : CallSearchTask(i, resp)
        \/ CallCollectReturn(i)
        \/ \E pf \in PreFilterResponses(Len(thread[i].candidates)),
               out \in FetchOutcomes : CallScrape(i, pf, out)

TwoCallSpec == TwoCallInit /\ [][TwoCallNext]_vars

-----------------------------------------------------------------------------
(* Properties *)

Returned == pc = "done"
Offers == result[1]
Warnings == result[2]

\* the number of times w occurs in the list ws
Occurrences(ws, w) == Cardinality({k \in 1..Len(ws) : ws[k] = w})

\* the pages of the judged list whose verdict passes the filter of lines 218-222
Qualifying == {i \in 1..Len(judged) :
                  AcceptedOffers(judged[i], judged[i].verdict, FALSE) # <<>>}

\* C1: whatever the query and whatever the collaborators answer, search()
\* returns a pair (list of offers, list of warning strings) and no exception
\* reaches its caller.
C1_NoCrash ==
    /\ escaped = "none"
    /\ Returned =>
          /\ result # NoResult
          /\ Len(result) = 2
          /\ \A k \in 1..Len(Offers) : Offers[k].url \in Urls
          /\ \A k \in 1..Len(Warnings) :
                Warnings[k] \in {MSG_EMPTY_QUERY, MSG_NO_QUERY, MSG_FALLBACK, MSG_UNEXPECTED}

\* C1 witness: a judge call raised inside search() and the call still returned a pair
C1_Witness ==
    /\ Returned
    /\ judged # <<>>
    /\ result = <<<<>>, <<MSG_UNEXPECTED>>>>

\* C2: when search() returns no offers it returns at least one warning.
C2_GracefulEmpty == (Returned /\ result # NoResult /\ Offers = <<>>) => Warnings # <<>>

\* C3: when exactly one page shown to the judge in the primary pass has a
\* verdict that passes every threshold, a supported currency and a price of at
\* least 0.50, and the others are judged irrelevant, search() returns exactly
\* one offer, for that page, with the converted price.
C3_QualifyingReturned ==
    (Returned /\ ~is_fallback /\ genai /\ Cardinality(Qualifying) = 1) =>
        /\ result # NoResult
        /\ Len(Offers) = 1
        /\ \A i \in Qualifying :
              /\ Offers[1].url = judged[i].url
              /\ Offers[1].price_in_usd = PriceInUsd(judged[i].verdict)

\* C9: the fallback block is entered at most once per call and only after the
\* primary pass has returned with no accepted offer; when the primary pass
\* accepted an offer there is no fallback and no returned offer is flagged.
C9_FallbackOnce ==
    /\ fallback_runs <= 1
    /\ fallback_runs > 0 => primary_accepted = 0
    /\ is_fallback => fallback_runs > 0
    /\ primary_accepted > 0 =>
          /\ fallback_runs = 0
          /\ (Returned /\ result # NoResult) =>
                \A k \in 1..Len(Offers) : ~Offers[k].is_alternative_suggestion

\* C9 witness: the primary pass returned nothing and the fallback pass is judging
C9_Witness ==
    /\ pc = "judge"
    /\ is_fallback
    /\ fallback_runs = 1
    /\ primary_accepted = 0

\* C10: when the fallback pass returned offers the substitution warning is the
\* first warning and occurs once; when it returned none, or did not run, the
\* warning is absent.
C10_FallbackWarning ==
    (Returned /\ result # NoResult) =>
        IF is_fallback /\ final_results # <<>>
        THEN /\ Warnings # <<>>
             /\ Warnings[1] = MSG_FALLBACK
             /\ Occurrences(Warnings, MSG_FALLBACK) = 1
        ELSE Occurrences(Warnings, MSG_FALLBACK) = 0

\* C10 witness: the fallback pass ran, found nothing, and search() returned
\* without the substitution warning
C10_Witness ==
    /\ Returned
    /\ is_fallback
    /\ fallback_runs = 1
    /\ result = <<<<>>, <<>>>>

\* C12: when an exception reaches the handler of search(), the call returns
\* no offer and exactly the one generic warning, whatever had been accepted or
\* recorded before, and nothing escapes to the caller.
C12_UnexpectedError ==
    [][pc = "handler" =>
          /\ pc' = "done"
          /\ escaped' = "none"
          /\ result' = <<<<>>, <<MSG_UNEXPECTED>>>>]_vars

\* C12 witness: the fetch of a fallback candidate raised and search() has
\* returned the generic warning
C12_Witness ==
    /\ Returned
    /\ is_fallback
    /\ pre_filtered # <<>>
    /\ judged = <<>>
    /\ result = <<<<>>, <<MSG_UNEXPECTED>>>>

\* search() was called with no text (query None or empty, for which line 235
\* puts the placeholder in original_query) and with no image
NoInput == original_query = "product from image" /\ image_content = None

\* C13: a call with neither a text query nor an image has returned no offer
\* and a warning without the enhancer, the search provider, the fetcher or the
\* judge being called.
C13_NoInputRejected ==
    NoInput =>
        /\ Returned
        /\ result # NoResult
        /\ Offers = <<>>
        /\ Warnings # <<>>
        /\ enhanced_query = None
        /\ tasks = NoTasks
        /\ candidates = <<>>
        /\ pre_filtered = <<>>
        /\ fallback_runs = 0
        /\ primary_accepted = 0 - 1

\* C14: a failure of one candidate's fetch or judgement never leaves the batch
\* as an exception, and every page of the batch whose verdict qualifies is in
\* the returned offers.
C14_FailureIsolated ==
    /\ ~(pc = "handler" /\ pre_filtered # <<>>)
    /\ (Returned /\ result # NoResult /\ genai) =>
          \A i \in Qualifying :
              \E k \in 1..Len(Offers) : Offers[k].url = judged[i].url

\* the judge answers that are no usable verdict
BadJudgeModes == {"malformed", "missing_key", "wrong_type"}

\* C15: a judging step whose judge answer does not parse, lacks a required
\* key or has a value of the wrong type adds no offer and raises nothing out
\* of the judging step.
C15_BadVerdictRejected ==
    [][\A i \in 1..Len(judged), mode \in BadJudgeModes :
          JudgeResult(i, mode) =>
              /\ pc' # "handler"
              /\ exc' = "none"
              /\ final_results' = final_results]_vars

\* C16: when the LLM call of the query enhancer fails, the step raises
\* nothing, the search goes on with the original query, and one warning has
\* been recorded in errors_list.
C16_EnhanceFailureWarned ==
    [][(genai /\ Enhance("raise")) =>
          /\ exc' = "none"
          /\ pc' = "collect"
          /\ enhanced_query' = original_query
          /\ Len(errors_list') = 1]_vars

\* the elements of a list
ToSet(seq) == {seq[k] : k \in 1..Len(seq)}

\* no element occurs twice in the list
NoDuplicates(seq) == \A j, k \in 1..Len(seq) : seq[j] = seq[k] => j = k

\* C17: a failed search call adds nothing and raises nothing, a successful
\* one adds its hits, and when every task has completed the candidates are
\* the hits gathered from the successful tasks, each URL once.
C17_FailedSearchIsolated ==
    [][/\ \A t \in TaskIds :
             FinishSearchTask(t, <<"fail">>) =>
                 /\ all_candidates' = all_candidates
                 /\ pc' = "collect"
                 /\ exc' = "none"
       /\ \A t \in TaskIds, resp \in SearchResponses \ {<<"fail">>} :
             FinishSearchTask(t, resp) =>
                 ToSet(all_candidates') = ToSet(all_candidates) \cup ToSet(resp[2])
       /\ CollectReturn =>
             /\ ToSet(candidates') = ToSet(all_candidates)
             /\ NoDuplicates(candidates')
             /\ pc' = "prefilter"]_vars

\* C17 witness: one search task failed and the loop of line 199 has taken
\* every future; the hits gathered hold two URLs, one of them twice
C17_Witness ==
    /\ pc = "collect"
    /\ AllTasksCompleted
    /\ \E t \in TaskIds : tasks[t] = "failed"
    /\ ~NoDuplicates(all_candidates)
    /\ Cardinality(ToSet(all_candidates)) = 2

\* C18: no page with empty or too short text is among the pages submitted to
\* the judge (so no offer comes from one), and once a fetch of the pass has
\* given such a page its URL is not fetched again in that pass.
C18_FailedPageSkipped ==
    /\ \A i \in 1..Len(judged) : judged[i].text_len > MinTextLen
    /\ \A i, j \in 1..Len(scraped) :
          (i < j /\ scraped[i].text_len <= MinTextLen) =>
              scraped[j].url # scraped[i].url

\* C20: the phases of one call follow each other in the order enhancing,
\* collecting, fetching, judging, ranking, done, with at most one fallback
\* pass of collecting, fetching and judging before the ranking: the enhancer
\* runs once and before every search task, a pass fetches only when every
\* search task of the pass has completed, submits to the judge only when
\* every fetch of the pass has completed, and the result is sorted and
\* truncated only when no judgement is outstanding.
C20_PhaseOrder ==
    [][/\ pc' = "idle" => pc = "idle"
       /\ pc' = "enhance" => pc = "idle"
       /\ pc = "enhance" => (pc' # "enhance" /\ tasks = NoTasks)
       /\ (pc' = "collect" /\ pc # "collect") =>
             \/ pc = "enhance"
             \/ pc = "after_primary" /\ ~is_fallback /\ is_fallback' /\ fallback_runs = 0
       /\ tasks' # tasks => (pc = "collect" \/ pc' = "collect")
       /\ pc' = "prefilter" =>
             (pc = "collect" /\ \A t \in TaskIds : TaskFinished(t))
       /\ (pc' = "scrape" /\ pc # "scrape") => pc = "prefilter"
       /\ Len(scraped') > Len(scraped) => (pc = "scrape" /\ tasks = NoTasks)
       /\ (pc' = "judge" /\ pc # "judge") =>
             (pc = "scrape" /\ Len(scraped) = Len(pre_filtered))
       /\ judged' # judged => (pc = "prefilter" \/ Len(scraped) = Len(pre_filtered))
       /\ (pc' \in {"after_primary", "after_fallback"} /\ pc' # pc) =>
             /\ pc \in {"prefilter", "scrape", "judge"}
             /\ (pc' = "after_fallback") = is_fallback
       /\ pc' = "finish" =>
             /\ pc \in {"after_primary", "after_fallback"}
             /\ judged = <<>>
             /\ consumed = {}
       /\ pc' = "handler" => pc \in {"scrape", "judge"}
       /\ pc' = "done" => pc \in {"idle", "enhance", "finish", "handler", "done"}]_vars

\* C20 witness: the call went through both passes: the primary pass fetched
\* its pages and submitted none, the fallback pass collected, fetched and
\* submitted pages to the judge, and the call has returned
C20_Witness ==
    /\ Returned
    /\ fallback_runs = 1
    /\ primary_accepted = 0
    /\ is_fallback
    /\ pre_filtered # <<>>
    /\ judged # <<>>

\* C21: at most SearchWorkers search calls run at once during collection and
\* at most ScrapeWorkers fetch or judge calls run at once during fetching and
\* judging, however many calls were submitted; the two pools never overlap.
C21_InFlightBounded ==
    /\ Cardinality(Running) <= SearchWorkers
    /\ Cardinality(RunningCalls) <= ScrapeWorkers
    /\ pc = "collect" => RunningCalls = {}
    /\ pc \in {"scrape", "judge"} => Running = {}

\* C21 witness: more judge calls were submitted than the pool has workers;
\* every worker is busy and a call is waiting
C21_Witness ==
    /\ pc = "judge"
    /\ Cardinality(RunningCalls) = ScrapeWorkers
    /\ \E i \in DOMAIN calls : calls[i] = "queued"

\* the query among the arguments of a judge call: line 215 passes the
\* original_query parameter of _scrape_and_validate_candidates
JudgeQueryArgument == scrape_original_query

\* C22: while judge calls are submitted, in either pass, the query among
\* their arguments is the query the user gave (stripped, or the placeholder
\* of line 235), not a text of the enhancer and not the fallback query.
C22_JudgeGivenOriginalQuery ==
    pc = "judge" =>
        /\ JudgeQueryArgument = original_query
        /\ JudgeQueryArgument \in {"q", "product from image"}
        /\ JudgeQueryArgument \notin {Strip(r) : r \in TextResponses \cup FallbackResponses}
        /\ is_fallback => JudgeQueryArgument # fallback_query

\* C22 witness: judge calls of the fallback pass are submitted while the
\* fallback query differs from the user's query
C22_Witness ==
    /\ pc = "judge"
    /\ is_fallback
    /\ fallback_query = "fb"
    /\ judged # <<>>
    /\ scrape_original_query = "q"

\* C23: search() is never left waiting for an external call that nothing
\* ends, so the call can always still reach its return.
C23_NoCallWaitsForever == pc # "blocked"

C26_PreFilterSelects ==
    /\ ToSet(pre_filtered) \subseteq ToSet(candidates)
    /\ NoDuplicates(pre_filtered)
    /\ \A j, k \in 1..Len(scraped) : scraped[j].url = scraped[k].url => j = k
    /\ \A j, k \in 1..Len(judged) : judged[j].url = judged[k].url => j = k

====
